---- MODULE Spec2Model ----
(***************************************************************************)
(* Model of src/windows/process.rs of sysinfo: the Windows process record  *)
(* (struct Process), its handle lifecycle (get_process_handler, Clone,     *)
(* Drop), Process::new, Process::kill, compute_cpu_usage, update_memory    *)
(* and the snapshot walker get_parent_process_id.                          *)
(*                                                                         *)
(* The operating system is modelled by what the Win32 calls used in the    *)
(* file return: a handle table (hnd), a process table (procs), the system  *)
(* clock (clock) and the toolhelp snapshot (snapshot).                     *)
(*                                                                         *)
(* u64 values are kept modulo 2^(2*DWordBits): a FILETIME is two words of  *)
(* DWordBits bits, and the width of the machine word is scaled down so     *)
(* that wrapped values stay within the model checker's integers.          *)
(***************************************************************************)
EXTENDS Integers, Sequences, FiniteSets, TLC

\* ------------------------------------------------------------------ bounds
MaxRecs == 2        \* record slots the caller holds at once
MaxHandles == 2     \* process handles the OS hands out in one run
MaxPid == 2         \* pids 0..MaxPid; pid 0 is the reserved one
MaxTick == 2        \* largest tick reading of the clock and of process times
MaxProcs == 2       \* nb_processors ranges over 1..MaxProcs
MaxBytes == 2048    \* largest PrivateUsage the OS reports, in bytes
DWordBits == 4      \* bits of one FILETIME word (32 in the program), scaled
MaxSnap == 2        \* entries of a toolhelp snapshot
MaxPath == 2        \* MAX_PATH (260 in the program), scaled

\* --------------------------------------------------------------- constants
NULL == 0           \* ::std::ptr::null_mut()
KiBShift == 10      \* >> 10u64 in update_memory
Percent == 100      \* * 100. in compute_cpu_usage

DWordMod == 2 ^ DWordBits
U64Mod == DWordMod * DWordMod

Slots == 1 .. MaxRecs
Handles == 1 .. MaxHandles
Pids == 0 .. MaxPid
Ticks == 0 .. MaxTick

\* Option<T>
None == <<>>
Some(x) == <<x>>
IsSome(o) == Len(o) = 1
Unwrap(o) == o[1]

\* ------------------------------------------------------------------- f32
\* The f32 values the code can produce are non-negative: NaN, +infinity, or
\* a finite non-negative value kept as a reduced fraction n/d.
RECURSIVE Gcd(_, _)
Gcd(a, b) == IF b = 0 THEN a ELSE Gcd(b, a % b)

FNaN == [k |-> "nan", n |-> 0, d |-> 0]
FInf == [k |-> "inf", n |-> 1, d |-> 0]
Fin(n, d) == LET g == Gcd(n, d) IN [k |-> "fin", n |-> n \div g, d |-> d \div g]
FZero == [k |-> "fin", n |-> 0, d |-> 1]

\* `x as f32` for an unsigned integer x
AsF32(x) == Fin(x, 1)

F32Add(a, b) ==
    IF a.k = "nan" \/ b.k = "nan" THEN FNaN
    ELSE IF a.k = "inf" \/ b.k = "inf" THEN FInf
    ELSE Fin(a.n * b.d + b.n * a.d, a.d * b.d)

\* IEEE-754 division of non-negative operands: 0/0 and inf/inf are NaN,
\* x/0 is +inf for x > 0, x/inf is 0.
F32Div(a, b) ==
    IF a.k = "nan" \/ b.k = "nan" THEN FNaN
    ELSE IF a.k = "inf" THEN (IF b.k = "inf" THEN FNaN ELSE FInf)
    ELSE IF b.k = "inf" THEN FZero
    ELSE IF b.n = 0 THEN (IF a.n = 0 THEN FNaN ELSE FInf)
    ELSE Fin(a.n * b.d, a.d * b.n)

F32Mul(a, b) ==
    IF a.k = "nan" \/ b.k = "nan" THEN FNaN
    ELSE IF a.k = "inf" THEN (IF b.k = "fin" /\ b.n = 0 THEN FNaN ELSE FInf)
    ELSE IF b.k = "inf" THEN (IF a.n = 0 THEN FNaN ELSE FInf)
    ELSE Fin(a.n * b.n, a.d * b.d)

\* -------------------------------------------------------------- FILETIME
\* FILETIME { dwLowDateTime, dwHighDateTime } as the OS fills it for a tick
\* count t, and the zeroed() value.
ToFileTime(t) == [dwLowDateTime |-> t % DWordMod, dwHighDateTime |-> (t \div DWordMod) % DWordMod]
ZeroFileTime == [dwLowDateTime |-> 0, dwHighDateTime |-> 0]

\* A plausible slip: the two words are combined in the wrong order.
MemcpyU64_swapped(ft) == ft.dwLowDateTime * DWordMod + ft.dwHighDateTime

\* memcpy(&mut u64, &FILETIME, size_of::<FILETIME>()) on a little-endian
\* target: the low word lands in the least significant half.
MemcpyU64(ft) == ft.dwHighDateTime * DWordMod + ft.dwLowDateTime

\* ------------------------------------------------------------------ state
VARIABLES
    recs,             \* the caller's Process values: slot -> record or Free
    hnd,              \* OS handle table: handle -> state of the handle
    procs,            \* OS process table: pid -> what the OS reports for it
    clock,            \* OS system time, in ticks
    overflow_checks,  \* build profile: TRUE panics on integer overflow (debug), FALSE wraps (release)
    panicked,         \* a panic has unwound the caller
    lastOp,           \* the last operation performed, its inputs, OS calls and result
    wpc,              \* get_parent_process_id: position in the function
    snapshot,         \* the entries of the toolhelp snapshot taken
    snapSt,           \* the snapshot handle: "none", "invalid", "open" or "closed"
    snapCloses,       \* CloseHandle calls made on the snapshot handle in this call
    wPid,             \* the pid argument of get_parent_process_id
    wIdx,             \* position of `entry` in the snapshot
    not_the_end,      \* the local of that name
    wRet              \* the value returned

vars == <<recs, hnd, procs, clock, overflow_checks, panicked, lastOp,
          wpc, snapshot, snapSt, snapCloses, wPid, wIdx, not_the_end, wRet>>
recVars == <<recs, hnd, lastOp, panicked>>
osVars == <<procs, clock>>
walkVars == <<wpc, snapshot, snapSt, snapCloses, wPid, wIdx, not_the_end, wRet>>

\* A slot that holds no Process (never constructed, or dropped).
Free == [live |-> FALSE]

\* An entry of the handle table that was never handed out.
FreeHandle == [st |-> "free", access |-> {}, pid |-> 0, closes |-> 0]

\* Desired-access flags of OpenProcess.
PROCESS_QUERY_INFORMATION == "PROCESS_QUERY_INFORMATION"
PROCESS_VM_READ == "PROCESS_VM_READ"
PROCESS_TERMINATE == "PROCESS_TERMINATE"

NoOp == [op |-> "none", slot |-> 0, ok |-> FALSE, ret |-> FALSE, calls |-> <<>>, nb |-> 0,
         pid |-> 0, parent |-> None, os |-> [full |-> FALSE, reduced |-> FALSE],
         ftime |-> ZeroFileTime, fsys |-> ZeroFileTime, fuser |-> ZeroFileTime]

\* ------------------------------------------------------------ OS calls
\* OpenProcess(options, FALSE, pid): the OS grants or denies the request;
\* os.full / os.reduced say whether it grants a request with / without
\* PROCESS_TERMINATE.  A granted request returns the handle `fresh`.
OpenProcess(options, pid, os, fresh) ==
    IF (IF PROCESS_TERMINATE \in options THEN os.full ELSE os.reduced)
    THEN fresh ELSE NULL

\* A handle the OS can still hand out (each OpenProcess that succeeds
\* yields a handle distinct from all earlier ones).
HasFreshHandle == \E h \in Handles : hnd[h].st = "free"
FreshHandle == CHOOSE h \in Handles : hnd[h].st = "free" /\ \A g \in Handles : hnd[g].st = "free" => h <= g

\* Whether `h` names an open handle of the handle table.
IsOpen(table, h) == h \in Handles /\ table[h].st = "open"

\* GetProcessTimes(h, &creation, &exit, &kernel, &user): fails on a null or
\* closed handle, and when the OS refuses (osOk = FALSE); on failure the
\* out-parameters are left as they were.
GetProcessTimes(table, h, osOk) ==
    IF IsOpen(table, h) /\ osOk
    THEN [ok |-> TRUE,
          creation |-> ToFileTime(procs[table[h].pid].creation),
          kernel |-> ToFileTime(procs[table[h].pid].kernel),
          user |-> ToFileTime(procs[table[h].pid].user)]
    ELSE [ok |-> FALSE, creation |-> ZeroFileTime, kernel |-> ZeroFileTime, user |-> ZeroFileTime]

\* GetProcessMemoryInfo(h, &pmc, size): same failure cases; pmc is zeroed
\* before the call.
GetProcessMemoryInfo(table, h, osOk) ==
    IF IsOpen(table, h) /\ osOk
    THEN [ok |-> TRUE, PrivateUsage |-> procs[table[h].pid].private]
    ELSE [ok |-> FALSE, PrivateUsage |-> 0]

\* TerminateProcess(h, code): nonzero only on an open handle that carries
\* PROCESS_TERMINATE, when the OS carries it out.
TerminateProcess(table, h, osOk) ==
    IF IsOpen(table, h) /\ PROCESS_TERMINATE \in table[h].access /\ osOk THEN 1 ELSE 0

\* CloseHandle(h) on the handle table: an open handle becomes closed; a
\* second CloseHandle on the same handle is counted (closes = 2 stands for
\* "two or more").
CloseHandle(table, h) ==
    IF h \in Handles
    THEN [table EXCEPT ![h] = [@ EXCEPT !.st = "closed",
                                        !.closes = IF @ = 0 THEN 1 ELSE 2]]
    ELSE table

\* ------------------------------------------------- get_process_handler
\* Returns the Option<HANDLE>, the OpenProcess calls made (in order) and
\* the access rights carried by the handle returned.
FullOptions == {PROCESS_QUERY_INFORMATION, PROCESS_VM_READ, PROCESS_TERMINATE}
ReducedOptions == {PROCESS_QUERY_INFORMATION, PROCESS_VM_READ}

\* A plausible slip: no retry with the reduced request.
get_process_handler_no_fallback(pid, os, fresh) ==
    IF pid = 0
    THEN [ret |-> None, calls |-> <<>>, access |-> {}]
    ELSE LET process_handler == OpenProcess(FullOptions, pid, os, fresh)
         IN  IF process_handler = NULL
             THEN [ret |-> None, calls |-> <<FullOptions>>, access |-> {}]
             ELSE [ret |-> Some(process_handler), calls |-> <<FullOptions>>,
                   access |-> FullOptions]

get_process_handler(pid, os, fresh) ==
    IF pid = 0
    THEN [ret |-> None, calls |-> <<>>, access |-> {}]
    ELSE LET options == FullOptions
             process_handler == OpenProcess(options, pid, os, fresh)
         IN  IF process_handler = NULL
             THEN LET options2 == ReducedOptions
                      process_handler2 == OpenProcess(options2, pid, os, fresh)
                  IN  IF process_handler2 = NULL
                      THEN [ret |-> None, calls |-> <<options, options2>>, access |-> {}]
                      ELSE [ret |-> Some(process_handler2), calls |-> <<options, options2>>,
                            access |-> options2]
             ELSE [ret |-> Some(process_handler), calls |-> <<options>>, access |-> options]

\* ------------------------------------------------------------ Process::new
\* process_name: [0u16; MAX_PATH + 1], filled by GetModuleBaseNameW when
\* EnumProcessModulesEx succeeded (modOk), at most MAX_PATH + 1 units.
ProcessNameBuf(pid, modOk) ==
    [i \in 1 .. (MaxPath + 1) |->
        IF modOk /\ i <= Len(procs[pid].baseName) THEN procs[pid].baseName[i] ELSE 0]

\* for x in process_name.iter() { if *x == 0 { break } pos += 1; }
RECURSIVE NamePos(_, _)
NamePos(buf, pos) ==
    IF pos < Len(buf) /\ buf[pos + 1] # 0 THEN NamePos(buf, pos + 1) ELSE pos

get_start_time(table, handle, timesOk) ==
    LET start == 0
        t == GetProcessTimes(table, handle, timesOk)
        fstart == IF t.ok THEN t.creation ELSE ZeroFileTime
    IN  MemcpyU64(fstart)

get_cmd_line(handle) == <<>>

get_proc_env(handle, pid, name) == <<>>

\* A plausible slip in the else branch: the parent hint is not stored.
DegradedProcess_no_parent(pid, parent) ==
    [live |-> TRUE, handle |-> NULL, name |-> <<>>, pid |-> pid, parent |-> None,
     cmd |-> <<>>, environ |-> <<>>, exe |-> <<>>, cwd |-> <<>>, root |-> <<>>,
     status |-> "Run", memory |-> 0, cpu_usage |-> FZero, old_cpu |-> 0,
     old_sys_cpu |-> 0, old_user_cpu |-> 0, start_time |-> 0]

\* The else branch of Process::new: the record built when
\* get_process_handler returned None.
DegradedProcess(pid, parent) ==
    [live |-> TRUE,
     handle |-> NULL,
     name |-> <<>>,
     pid |-> pid,
     parent |-> parent,
     cmd |-> <<>>,
     environ |-> <<>>,
     exe |-> <<>>,
     cwd |-> <<>>,
     root |-> <<>>,
     status |-> "Run",
     memory |-> 0,
     cpu_usage |-> FZero,
     old_cpu |-> 0,
     old_sys_cpu |-> 0,
     old_user_cpu |-> 0,
     start_time |-> 0]

\* gh is the result of get_process_handler(pid), table the handle table
\* after it.  Strings are sequences of
\* code units; String::new() is <<>>.
Process_new(pid, parent, gh, table, modOk, timesOk) ==
    IF IsSome(gh.ret)
    THEN LET process_handler == Unwrap(gh.ret)
             process_name == ProcessNameBuf(pid, modOk)
             pos == NamePos(process_name, 0)
             name == SubSeq(process_name, 1, pos)
             environ == get_proc_env(process_handler, pid, name)
         IN  [live |-> TRUE,
              handle |-> process_handler,
              name |-> name,
              pid |-> pid,
              parent |-> parent,
              cmd |-> get_cmd_line(process_handler),
              environ |-> environ,
              exe |-> <<>>,
              cwd |-> <<>>,
              root |-> <<>>,
              status |-> "Run",
              memory |-> 0,
              cpu_usage |-> FZero,
              old_cpu |-> 0,
              old_sys_cpu |-> 0,
              old_user_cpu |-> 0,
              start_time |-> get_start_time(table, process_handler, timesOk)]
    ELSE DegradedProcess(pid, parent)

\* ----------------------------------------------------------- Process::kill
\* A plausible slip: the result test is inverted (x == 0).
Process_kill_inverted(p, table, osOk) ==
    LET x == TerminateProcess(table, p.handle, osOk)
    IN  [ret |-> x = 0, calls |-> <<[fn |-> "TerminateProcess", h |-> p.handle]>>]

\* Returns the bool and the OS calls made.
Process_kill(p, table, osOk) ==
    LET x == TerminateProcess(table, p.handle, osOk)
    IN  [ret |-> x # 0, calls |-> <<[fn |-> "TerminateProcess", h |-> p.handle]>>]

\* ------------------------------------------------------- Drop for Process
\* The handle table after drop(p), and the OS calls made.
Process_drop(p, table) ==
    IF p.handle = NULL
    THEN [table |-> table, calls |-> <<>>]
    ELSE [table |-> CloseHandle(table, p.handle),
          calls |-> <<[fn |-> "CloseHandle", h |-> p.handle]>>]

\* #[derive(Clone)]: every field is cloned; HANDLE is a raw pointer, whose
\* clone is the same pointer.
Process_clone(p) == p

\* ------------------------------------------------------ compute_cpu_usage
\* a - b on u64: wraps modulo 2^64 when overflow checks are off.
WrappingSub(a, b) == (a - b + U64Mod) % U64Mod

\* A plausible slip: the samples are stored only while none is stored yet.
compute_cpu_usage_first_sample(p, nb_processors, now_ft, times, checks) ==
    LET now == MemcpyU64(now_ft)
        sys == MemcpyU64(IF times.ok THEN times.kernel ELSE ZeroFileTime)
        user == MemcpyU64(IF times.ok THEN times.user ELSE ZeroFileTime)
        overflow == sys < p.old_sys_cpu \/ user < p.old_user_cpu \/ now < p.old_cpu
        usage == F32Mul(
                   F32Div(
                     F32Div(F32Add(AsF32(WrappingSub(sys, p.old_sys_cpu)),
                                   AsF32(WrappingSub(user, p.old_user_cpu))),
                            AsF32(WrappingSub(now, p.old_cpu))),
                     AsF32(nb_processors)),
                   AsF32(Percent))
    IN  IF overflow /\ checks
        THEN [panic |-> TRUE, p |-> p]
        ELSE [panic |-> FALSE,
              p |-> IF p.old_cpu = 0
                    THEN [p EXCEPT !.cpu_usage = usage, !.old_cpu = now,
                                   !.old_user_cpu = user, !.old_sys_cpu = sys]
                    ELSE [p EXCEPT !.cpu_usage = usage]]

\* A plausible slip: the kernel and user samples are not stored.
compute_cpu_usage_stale(p, nb_processors, now_ft, times, checks) ==
    LET now == MemcpyU64(now_ft)
        sys == MemcpyU64(IF times.ok THEN times.kernel ELSE ZeroFileTime)
        user == MemcpyU64(IF times.ok THEN times.user ELSE ZeroFileTime)
        overflow == sys < p.old_sys_cpu \/ user < p.old_user_cpu \/ now < p.old_cpu
        usage == F32Mul(
                   F32Div(
                     F32Div(F32Add(AsF32(WrappingSub(sys, p.old_sys_cpu)),
                                   AsF32(WrappingSub(user, p.old_user_cpu))),
                            AsF32(WrappingSub(now, p.old_cpu))),
                     AsF32(nb_processors)),
                   AsF32(Percent))
    IN  IF overflow /\ checks
        THEN [panic |-> TRUE, p |-> p]
        ELSE [panic |-> FALSE, p |-> [p EXCEPT !.cpu_usage = usage, !.old_cpu = now]]

\* now_ft is what GetSystemTimeAsFileTime wrote, times the result of
\* GetProcessTimes(p.handle, ..); fsys and fuser stay zeroed when it failed.
compute_cpu_usage(p, nb_processors, now_ft, times, checks) ==
    LET now == MemcpyU64(now_ft)
        fsys == IF times.ok THEN times.kernel ELSE ZeroFileTime
        fuser == IF times.ok THEN times.user ELSE ZeroFileTime
        sys == MemcpyU64(fsys)
        user == MemcpyU64(fuser)
        overflow == sys < p.old_sys_cpu \/ user < p.old_user_cpu \/ now < p.old_cpu
        usage == F32Mul(
                   F32Div(
                     F32Div(F32Add(AsF32(WrappingSub(sys, p.old_sys_cpu)),
                                   AsF32(WrappingSub(user, p.old_user_cpu))),
                            AsF32(WrappingSub(now, p.old_cpu))),
                     AsF32(nb_processors)),
                   AsF32(Percent))
    IN  IF overflow /\ checks
        THEN [panic |-> TRUE, p |-> p]
        ELSE [panic |-> FALSE,
              p |-> [p EXCEPT !.cpu_usage = usage,
                              !.old_cpu = now,
                              !.old_user_cpu = user,
                              !.old_sys_cpu = sys]]

get_handle(p) == p.handle

\* ---------------------------------------------------------- update_memory
\* A plausible slip: the failure branch stores the zeroed counter.
update_memory_reset(p, pmc) ==
    [p EXCEPT !.memory = pmc.PrivateUsage \div (2 ^ KiBShift)]

\* A plausible slip: the byte count is stored without the shift.
update_memory_no_shift(p, pmc) ==
    IF pmc.ok
    THEN [p EXCEPT !.memory = pmc.PrivateUsage]
    ELSE p

\* pmc is the result of GetProcessMemoryInfo(p.handle, ..).
update_memory(p, pmc) ==
    IF pmc.ok
    THEN [p EXCEPT !.memory = pmc.PrivateUsage \div (2 ^ KiBShift)]
    ELSE p

\* A plausible slip: the refresh also clears the usage.
update_proc_info_clears_usage(p, pmc) == [update_memory(p, pmc) EXCEPT !.cpu_usage = FZero]

update_proc_info(p, pmc) == update_memory(p, pmc)

\* ---------------------------------------------------------------- actions
\* The handle table after get_process_handler returned gh for pid.
Acquire(table, gh, pid) ==
    IF IsSome(gh.ret)
    THEN [table EXCEPT ![Unwrap(gh.ret)] =
              [st |-> "open", access |-> gh.access, pid |-> pid, closes |-> 0]]
    ELSE table

\* let p = Process::new(pid, parent, 0), stored in slot r.  os is the OS's
\* answer to the two OpenProcess requests, modOk that of
\* EnumProcessModulesEx, timesOk that of GetProcessTimes.
New(r, pid, parent, os, modOk, timesOk) ==
    /\ ~panicked
    /\ recs[r] = Free
    /\ (pid # 0 /\ (os.full \/ os.reduced)) => HasFreshHandle
    /\ LET fresh == IF HasFreshHandle THEN FreshHandle ELSE NULL
           gh == get_process_handler(pid, os, fresh)
           table == Acquire(hnd, gh, pid)
       IN  /\ hnd' = table
           /\ recs' = [recs EXCEPT ![r] = Process_new(pid, parent, gh, table, modOk, timesOk)]
           /\ lastOp' = [NoOp EXCEPT !.op = "new", !.slot = r, !.ok = IsSome(gh.ret),
                                     !.calls = gh.calls, !.pid = pid, !.parent = parent,
                                     !.os = os]
    /\ UNCHANGED <<panicked, osVars, overflow_checks, walkVars>>

\* let q = p.clone(), p in slot r, q stored in slot s.
Clone(r, s) ==
    /\ ~panicked
    /\ recs[r] # Free
    /\ recs[s] = Free
    /\ recs' = [recs EXCEPT ![s] = Process_clone(recs[r])]
    /\ lastOp' = [NoOp EXCEPT !.op = "clone", !.slot = s]
    /\ UNCHANGED <<hnd, panicked, osVars, overflow_checks, walkVars>>

\* drop(p), p in slot r.
Drop(r) ==
    /\ ~panicked
    /\ recs[r] # Free
    /\ LET d == Process_drop(recs[r], hnd)
       IN  /\ hnd' = d.table
           /\ lastOp' = [NoOp EXCEPT !.op = "drop", !.slot = r]
    /\ recs' = [recs EXCEPT ![r] = Free]
    /\ UNCHANGED <<panicked, osVars, overflow_checks, walkVars>>

\* p.kill(signal), p in slot r.
Kill(r, osOk) ==
    /\ ~panicked
    /\ recs[r] # Free
    /\ LET k == Process_kill(recs[r], hnd, osOk)
       IN  lastOp' = [NoOp EXCEPT !.op = "kill", !.slot = r, !.ret = k.ret, !.calls = k.calls]
    /\ UNCHANGED <<recs, hnd, panicked, osVars, overflow_checks, walkVars>>

\* update_memory(&mut p), p in slot r.
UpdateMemory(r, osOk) ==
    /\ ~panicked
    /\ recs[r] # Free
    /\ LET pmc == GetProcessMemoryInfo(hnd, recs[r].handle, osOk)
       IN  /\ recs' = [recs EXCEPT ![r] = update_memory(recs[r], pmc)]
           /\ lastOp' = [NoOp EXCEPT !.op = "update_memory", !.slot = r, !.ok = pmc.ok]
    /\ UNCHANGED <<hnd, panicked, osVars, overflow_checks, walkVars>>

\* update_proc_info(&mut p), p in slot r.
UpdateProcInfo(r, osOk) ==
    /\ ~panicked
    /\ recs[r] # Free
    /\ LET pmc == GetProcessMemoryInfo(hnd, recs[r].handle, osOk)
       IN  /\ recs' = [recs EXCEPT ![r] = update_proc_info(recs[r], pmc)]
           /\ lastOp' = [NoOp EXCEPT !.op = "update_proc_info", !.slot = r, !.ok = pmc.ok]
    /\ UNCHANGED <<hnd, panicked, osVars, overflow_checks, walkVars>>

\* compute_cpu_usage(&mut p, nb_processors), p in slot r.
ComputeCpuUsage(r, nb_processors, osOk) ==
    /\ ~panicked
    /\ recs[r] # Free
    /\ LET ftime == ToFileTime(clock)
           times == GetProcessTimes(hnd, recs[r].handle, osOk)
           c == compute_cpu_usage(recs[r], nb_processors, ftime, times, overflow_checks)
       IN  /\ recs' = [recs EXCEPT ![r] = c.p]
           /\ panicked' = c.panic
           /\ lastOp' = [NoOp EXCEPT !.op = "compute_cpu_usage", !.slot = r, !.ok = times.ok,
                                     !.nb = nb_processors, !.ftime = ftime,
                                     !.fsys = times.kernel, !.fuser = times.user]
    /\ UNCHANGED <<hnd, osVars, overflow_checks, walkVars>>

\* ---------------------------------------------------- lifecycle: Spec
\* The caller constructs, clones, samples, kills and drops records while
\* the OS's clock and counters stand still.
ParentHints == {None} \cup {Some(q) : q \in 1 .. MaxPid}
OsAnswers == [full : BOOLEAN, reduced : BOOLEAN]

WalkIdle ==
    /\ wpc = "idle"
    /\ snapshot = <<>>
    /\ snapSt = "none"
    /\ snapCloses = 0
    /\ wPid = 0
    /\ wIdx = 0
    /\ not_the_end = 0
    /\ wRet = None

NoRecords ==
    /\ recs = [s \in Slots |-> Free]
    /\ hnd = [h \in Handles |-> FreeHandle]
    /\ panicked = FALSE
    /\ lastOp = NoOp

QuietProc == [baseName |-> <<>>, creation |-> 0, kernel |-> 0, user |-> 0, private |-> MaxBytes]

Init ==
    /\ NoRecords
    /\ procs = [q \in 1 .. MaxPid |-> QuietProc]
    /\ clock = 1
    /\ overflow_checks \in BOOLEAN
    /\ WalkIdle

Next ==
    \/ \E r \in Slots, pid \in {0, MaxPid}, os \in OsAnswers,
          modOk \in BOOLEAN, timesOk \in BOOLEAN :
            New(r, pid, None, os, modOk, timesOk)
    \/ \E r \in Slots, s \in Slots : Clone(r, s)
    \/ \E r \in Slots : Drop(r)
    \/ \E r \in Slots, osOk \in BOOLEAN : Kill(r, osOk)
    \/ \E r \in Slots, osOk \in BOOLEAN : UpdateMemory(r, osOk)
    \/ \E r \in Slots, nb \in 1 .. MaxProcs, osOk \in BOOLEAN : ComputeCpuUsage(r, nb, osOk)

Spec == Init /\ [][Next]_vars

\* ------------------------------------------------ construction: SpecNew
\* One record is constructed (and dropped) for every pid, parent hint and
\* OS answer, over processes with every base name and creation time.
Names == {[i \in 1 .. n |-> 65] : n \in 0 .. (MaxPath + 2)}
CreationTicks == {0, MaxTick, DWordMod * MaxTick + 1}

InitNew ==
    /\ NoRecords
    /\ \E nm \in Names, ct \in CreationTicks :
          procs = [q \in 1 .. MaxPid |->
                      [QuietProc EXCEPT !.baseName = nm, !.creation = ct]]
    /\ clock = 1
    /\ overflow_checks \in BOOLEAN
    /\ WalkIdle

NextNew ==
    \/ \E pid \in Pids, parent \in ParentHints, os \in OsAnswers,
          modOk \in BOOLEAN, timesOk \in BOOLEAN :
            New(1, pid, parent, os, modOk, timesOk)
    \/ Drop(1)

SpecNew == InitNew /\ [][NextNew]_vars

\* The last operation was Process::new, and OpenProcess could not succeed
\* for it: the pid is 0 or the OS denied both requests.
NewFailedAcquisition ==
    /\ lastOp.op = "new"
    /\ lastOp.pid = 0 \/ (~lastOp.os.full /\ ~lastOp.os.reduced)

\* C6: for every pid for which handle acquisition fails (pid 0, or both
\* permission tiers denied), Process::new returns without panicking a
\* degraded record: pid and parent are the arguments, name, cmd, exe, cwd
\* and root are empty, environ is empty, memory, cpu_usage, start_time and
\* the previous-sample fields are zero, and the handle is null.
C6_DegradedRecord ==
    NewFailedAcquisition =>
        LET p == recs[lastOp.slot]
        IN  /\ ~panicked
            /\ p # Free
            /\ p.pid = lastOp.pid
            /\ p.parent = lastOp.parent
            /\ p.name = <<>> /\ p.cmd = <<>> /\ p.exe = <<>>
            /\ p.cwd = <<>> /\ p.root = <<>>
            /\ p.environ = <<>>
            /\ p.memory = 0
            /\ p.cpu_usage = FZero
            /\ p.start_time = 0
            /\ p.old_cpu = 0 /\ p.old_sys_cpu = 0 /\ p.old_user_cpu = 0
            /\ p.handle = NULL

\* A record was just constructed for a named process with a parent hint,
\* after the OS denied both requests.
C6_Witness ==
    /\ NewFailedAcquisition
    /\ lastOp.pid # 0
    /\ lastOp.parent # None
    /\ procs[lastOp.pid].baseName # <<>>
    /\ procs[lastOp.pid].creation # 0
    /\ recs[lastOp.slot] # Free

\* C10: get_process_handler returns None exactly when pid == 0 (and then
\* makes no OpenProcess call) or when the OS denies both the full and the
\* reduced request; otherwise it returns the handle of the first request
\* that succeeded, and the reduced request is made only after the full one
\* was denied.
C10_HandlerTiers ==
    lastOp.op = "new" =>
        LET p == recs[lastOp.slot]
            os == lastOp.os
        IN  /\ ~lastOp.ok <=> (lastOp.pid = 0 \/ (~os.full /\ ~os.reduced))
            /\ lastOp.ok <=> p.handle # NULL
            /\ lastOp.pid = 0 => lastOp.calls = <<>>
            /\ (lastOp.pid # 0 /\ os.full) =>
                  /\ lastOp.calls = <<FullOptions>>
                  /\ IsOpen(hnd, p.handle) /\ hnd[p.handle].access = FullOptions
            /\ (lastOp.pid # 0 /\ ~os.full) =>
                  lastOp.calls = <<FullOptions, ReducedOptions>>
            /\ (lastOp.pid # 0 /\ ~os.full /\ os.reduced) =>
                  IsOpen(hnd, p.handle) /\ hnd[p.handle].access = ReducedOptions

\* The full request was denied and the reduced one granted.
C10_Witness ==
    /\ lastOp.op = "new"
    /\ lastOp.pid # 0
    /\ ~lastOp.os.full /\ lastOp.os.reduced
    /\ lastOp.ok
    /\ hnd[recs[lastOp.slot].handle].access = ReducedOptions

\* ------------------------------------------------------ lifecycle claims
\* The live records that hold handle h.
Holders(h) == {r \in Slots : recs[r] # Free /\ recs[r].handle = h}

\* C1: every process handle that get_process_handler acquired is released
\* with CloseHandle exactly once: never twice (also when a record was cloned
\* and both copies are dropped), and never zero times once every record
\* holding it has been dropped.
C1_ReleasedExactlyOnce ==
    \A h \in Handles :
        hnd[h].st # "free" =>
            /\ hnd[h].closes <= 1
            /\ Holders(h) = {} => hnd[h].closes = 1

\* C3: kill on a degraded record (null handle) returns false and performs
\* no OS call: TerminateProcess is never invoked with the null handle.
C3_KillDegraded ==
    (lastOp.op = "kill" /\ recs[lastOp.slot].handle = NULL) =>
        /\ lastOp.ret = FALSE
        /\ lastOp.calls = <<>>

\* C5: the handle of every live record is null or a handle that was
\* acquired and has not yet been released.
C5_HandleValidOrNull ==
    \A r \in Slots :
        recs[r] # Free => (recs[r].handle = NULL \/ IsOpen(hnd, recs[r].handle))

\* ------------------------------------------------------ sampling: SpecCpu
\* One record is sampled with compute_cpu_usage while the OS clock advances
\* (or is set back) and the process consumes kernel and user time.

\* The system clock advances by one tick.
OsTick ==
    /\ clock < MaxTick
    /\ clock' = clock + 1
    /\ UNCHANGED <<procs, recVars, overflow_checks, walkVars>>

\* The system clock is set back to t (SetSystemTime).
OsSetClock(t) ==
    /\ 1 <= t /\ t < clock
    /\ clock' = t
    /\ UNCHANGED <<procs, recVars, overflow_checks, walkVars>>

\* Process pid runs for one tick in kernel mode.
OsRunKernel(pid) ==
    /\ procs[pid].kernel < MaxTick
    /\ procs' = [procs EXCEPT ![pid].kernel = @ + 1]
    /\ UNCHANGED <<clock, recVars, overflow_checks, walkVars>>

\* Process pid runs for one tick in user mode.
OsRunUser(pid) ==
    /\ procs[pid].user < MaxTick
    /\ procs' = [procs EXCEPT ![pid].user = @ + 1]
    /\ UNCHANGED <<clock, recVars, overflow_checks, walkVars>>

InitCpu ==
    /\ NoRecords
    /\ procs = [q \in 1 .. MaxPid |-> QuietProc]
    /\ clock = 1
    /\ overflow_checks \in BOOLEAN
    /\ WalkIdle

NextCpu ==
    \/ \E os \in OsAnswers : New(1, MaxPid, None, os, TRUE, TRUE)
    \/ \E nb \in 1 .. MaxProcs, osOk \in BOOLEAN : ComputeCpuUsage(1, nb, osOk)
    \/ OsTick
    \/ \E t \in Ticks : OsSetClock(t)
    \/ OsRunKernel(MaxPid)
    \/ OsRunUser(MaxPid)

SpecCpu == InitCpu /\ [][NextCpu]_vars

\* C2: when compute_cpu_usage is called on a record whose stored previous
\* wall-clock sample equals the current wall-clock reading, it sets
\* cpu_usage to 0.0: no division by zero, no NaN, no infinity, no panic.
C2_SameWallIsZero ==
    [][\A nb \in 1 .. MaxProcs, osOk \in BOOLEAN :
          (ComputeCpuUsage(1, nb, osOk) /\ recs[1].old_cpu = MemcpyU64(ToFileTime(clock)))
              => (~panicked' /\ recs'[1].cpu_usage = FZero)]_vars

\* C4: when the process-times query inside compute_cpu_usage fails, the
\* call updates nothing: cpu_usage, old_cpu, old_sys_cpu and old_user_cpu
\* keep the values they had before the call.
C4_FailedQueryNoUpdate ==
    [][\A nb \in 1 .. MaxProcs, osOk \in BOOLEAN :
          (ComputeCpuUsage(1, nb, osOk) /\ ~GetProcessTimes(hnd, recs[1].handle, osOk).ok)
              => /\ recs'[1].cpu_usage = recs[1].cpu_usage
                 /\ recs'[1].old_cpu = recs[1].old_cpu
                 /\ recs'[1].old_sys_cpu = recs[1].old_sys_cpu
                 /\ recs'[1].old_user_cpu = recs[1].old_user_cpu]_vars

\* ------------------------------------------------------- memory: SpecMem
\* One record is sampled with update_memory / update_proc_info while the
\* private usage of the process changes.
PrivateBytes == {0, 2 ^ KiBShift - 1, 2 ^ KiBShift, MaxBytes}

\* The private usage of process pid becomes b bytes.
OsMem(pid, b) ==
    /\ procs[pid].private # b
    /\ procs' = [procs EXCEPT ![pid].private = b]
    /\ UNCHANGED <<clock, recVars, overflow_checks, walkVars>>

InitMem ==
    /\ NoRecords
    /\ procs = [q \in 1 .. MaxPid |-> QuietProc]
    /\ clock = 1
    /\ overflow_checks \in BOOLEAN
    /\ WalkIdle

NextMem ==
    \/ \E pid \in {0, MaxPid}, os \in OsAnswers : New(1, pid, None, os, TRUE, TRUE)
    \/ \E osOk \in BOOLEAN : UpdateMemory(1, osOk)
    \/ \E osOk \in BOOLEAN : UpdateProcInfo(1, osOk)
    \/ \E b \in PrivateBytes : OsMem(MaxPid, b)
    \/ Drop(1)

SpecMem == InitMem /\ [][NextMem]_vars

\* C7: when the memory query inside update_memory fails, record.memory
\* after the call equals its value before the call (it is not reset to
\* zero), whatever updates came before.
C7_FailedQueryKeepsMemory ==
    [][\A osOk \in BOOLEAN :
          (UpdateMemory(1, osOk) /\ ~GetProcessMemoryInfo(hnd, recs[1].handle, osOk).ok)
              => recs'[1].memory = recs[1].memory]_vars

\* update_memory has just failed on a record that carries a reading from
\* an earlier successful update.
C7_Witness ==
    /\ lastOp.op = "update_memory"
    /\ ~lastOp.ok
    /\ recs[lastOp.slot] # Free
    /\ recs[lastOp.slot].memory > 0

\* ------------------------------------------- get_parent_process_id
\* CloseHandle(snapshot): an open snapshot becomes closed; on
\* INVALID_HANDLE_VALUE (creation failed) the call closes nothing.
SnapClosed(st) == IF st = "open" THEN "closed" ELSE st

\* The snapshots the OS can return: up to MaxSnap (pid, parent) entries.
SnapEntries == [pid : {4, 8}, parent : {1, 4}]
Snapshots == UNION {[1 .. n -> SnapEntries] : n \in 0 .. MaxSnap}
QueryPids == {4, 8, 99}

\* Entry: snapshot = CreateToolhelp32Snapshot(..) (createOk: it succeeded,
\* with the entries given), entry zeroed, not_the_end = Process32First(..).
WalkCall(pid, entries, createOk) ==
    /\ wpc \in {"idle", "done"}
    /\ wPid' = pid
    /\ snapshot' = IF createOk THEN entries ELSE <<>>
    /\ snapSt' = IF createOk THEN "open" ELSE "invalid"
    /\ snapCloses' = 0
    /\ IF createOk /\ Len(entries) > 0
       THEN wIdx' = 1 /\ not_the_end' = 1
       ELSE wIdx' = 0 /\ not_the_end' = 0
    /\ wRet' = None
    /\ wpc' = "loop"
    /\ UNCHANGED <<recVars, osVars, overflow_checks>>

\* A plausible slip: the early return forgets CloseHandle(snapshot).
WalkLoopMatch_no_close ==
    /\ wpc = "loop"
    /\ not_the_end # 0
    /\ wPid = snapshot[wIdx].pid
    /\ wRet' = Some(snapshot[wIdx].parent)
    /\ wpc' = "done"
    /\ UNCHANGED <<snapSt, snapCloses, snapshot, wPid, wIdx, not_the_end, recVars, osVars, overflow_checks>>

\* A plausible slip: the entry's own pid is returned instead of its parent.
WalkLoopMatch_own_pid ==
    /\ wpc = "loop"
    /\ not_the_end # 0
    /\ wPid = snapshot[wIdx].pid
    /\ snapSt' = SnapClosed(snapSt)
    /\ snapCloses' = snapCloses + 1
    /\ wRet' = Some(snapshot[wIdx].pid)
    /\ wpc' = "done"
    /\ UNCHANGED <<snapshot, wPid, wIdx, not_the_end, recVars, osVars, overflow_checks>>

\* Loop body, pid == entry.th32ProcessID: CloseHandle(snapshot);
\* return Some(entry.th32ParentProcessID).
WalkLoopMatch ==
    /\ wpc = "loop"
    /\ not_the_end # 0
    /\ wPid = snapshot[wIdx].pid
    /\ snapSt' = SnapClosed(snapSt)
    /\ snapCloses' = snapCloses + 1
    /\ wRet' = Some(snapshot[wIdx].parent)
    /\ wpc' = "done"
    /\ UNCHANGED <<snapshot, wPid, wIdx, not_the_end, recVars, osVars, overflow_checks>>

\* Loop body, no match: not_the_end = Process32Next(snapshot, &mut entry).
WalkLoopNext ==
    /\ wpc = "loop"
    /\ not_the_end # 0
    /\ wPid # snapshot[wIdx].pid
    /\ IF wIdx < Len(snapshot)
       THEN wIdx' = wIdx + 1 /\ not_the_end' = 1
       ELSE wIdx' = wIdx /\ not_the_end' = 0
    /\ UNCHANGED <<wpc, snapshot, snapSt, snapCloses, wPid, wRet, recVars, osVars, overflow_checks>>

\* Loop exit: CloseHandle(snapshot); None.
WalkExit ==
    /\ wpc = "loop"
    /\ not_the_end = 0
    /\ snapSt' = SnapClosed(snapSt)
    /\ snapCloses' = snapCloses + 1
    /\ wRet' = None
    /\ wpc' = "done"
    /\ UNCHANGED <<snapshot, wPid, wIdx, not_the_end, recVars, osVars, overflow_checks>>

InitWalker ==
    /\ NoRecords
    /\ procs = [q \in 1 .. MaxPid |-> QuietProc]
    /\ clock = 1
    /\ overflow_checks \in BOOLEAN
    /\ WalkIdle

NextWalker ==
    \/ \E pid \in QueryPids, entries \in Snapshots, createOk \in BOOLEAN :
          WalkCall(pid, entries, createOk)
    \/ WalkLoopMatch
    \/ WalkLoopNext
    \/ WalkExit

SpecWalker == InitWalker /\ [][NextWalker]_vars

\* C8: every call of get_parent_process_id closes the snapshot it created
\* exactly once on every exit path (early match, exhausted scan, empty
\* snapshot, failed creation); no snapshot remains open after the call
\* returns.
C8_SnapshotClosedOnce ==
    /\ snapCloses <= 1
    /\ snapSt = "closed" => snapCloses = 1
    /\ wpc = "done" => (snapSt # "open" /\ snapCloses = 1)

\* The call has returned through the early-match exit, before the end of a
\* snapshot of several entries.
C8_Witness ==
    /\ wpc = "done"
    /\ IsSome(wRet)
    /\ wIdx < Len(snapshot)
    /\ snapSt = "closed"

\* The parent recorded by the first entry of the snapshot whose pid is the
\* query, if there is one.
FirstMatch(entries, pid) ==
    IF \E i \in 1 .. Len(entries) : entries[i].pid = pid
    THEN LET i == CHOOSE j \in 1 .. Len(entries) :
                     /\ entries[j].pid = pid
                     /\ \A k \in 1 .. (j - 1) : entries[k].pid # pid
         IN  Some(entries[i].parent)
    ELSE None

\* C9: for every snapshot and every queried pid, get_parent_process_id
\* returns Some(parent) of the first entry whose own pid equals the query,
\* and None when no entry has that pid.
C9_FirstMatchingParent ==
    wpc = "done" => wRet = FirstMatch(snapshot, wPid)

\* On the snapshot {(4,1),(8,4)} the query 8 has returned Some(4).
C9_Witness ==
    /\ wpc = "done"
    /\ snapshot = <<[pid |-> 4, parent |-> 1], [pid |-> 8, parent |-> 4]>>
    /\ wPid = 8
    /\ wRet = Some(4)


\* --------------------------------------------------------- sampling claims
\* The tick count a two-word OS time stands for: high * 2^32 + low (with
\* the word width of the model).
TicksOf(ft) == ft.dwHighDateTime * (2 ^ DWordBits) + ft.dwLowDateTime

\* A usage that lies in [0, 100 * nb].
InUsageRange(u, nb) == u.k = "fin" /\ 0 <= u.n /\ u.n <= 100 * nb * u.d

\* The step is a compute_cpu_usage call on slot 1 whose wall-clock, kernel
\* and user readings are not below the samples stored by the previous call.
NonRegressingCall(nb, osOk) ==
    /\ ComputeCpuUsage(1, nb, osOk)
    /\ TicksOf(lastOp'.ftime) >= recs[1].old_cpu
    /\ TicksOf(lastOp'.fsys) >= recs[1].old_sys_cpu
    /\ TicksOf(lastOp'.fuser) >= recs[1].old_user_cpu

\* C11: over successive compute_cpu_usage calls on one record in which the
\* wall-clock, kernel and user readings never regress, the cpu_usage stored
\* after every call lies in [0, 100 * nb_processors]; it is never negative.
C11_UsageInRange ==
    [][\A nb \in 1 .. MaxProcs, osOk \in BOOLEAN :
          NonRegressingCall(nb, osOk) => InUsageRange(recs'[1].cpu_usage, nb)]_vars


\* ----------------------------------------------------- construction claims
\* The pid of the calling process (GetCurrentProcessId()).
CurrentProcessId == 1

\* An environment entry of the shape KEY=VALUE: a '=' (code unit 61) after
\* a non-empty key.
IsKeyValue(e) == \E i \in 2 .. Len(e) : e[i] = 61

\* C12: a record constructed with Process::new for the calling process's
\* own pid has a non-empty environ whose every entry has the shape
\* KEY=VALUE, while its cmd, exe, cwd and root are empty strings.
C12_OwnEnviron ==
    (lastOp.op = "new" /\ lastOp.pid = CurrentProcessId /\ lastOp.ok) =>
        LET p == recs[lastOp.slot]
        IN  /\ p.environ # <<>>
            /\ \A i \in 1 .. Len(p.environ) : IsKeyValue(p.environ[i])
            /\ p.cmd = <<>> /\ p.exe = <<>> /\ p.cwd = <<>> /\ p.root = <<>>


\* --------------------------------------------------- one record: SpecSample
\* One record is constructed, sampled (CPU and memory) and killed while the
\* OS clock, the process's user time and its private usage change.
InitSample ==
    /\ NoRecords
    /\ procs = [q \in 1 .. MaxPid |-> QuietProc]
    /\ clock = 1
    /\ overflow_checks \in BOOLEAN
    /\ WalkIdle

NextSample ==
    \/ \E os \in OsAnswers : New(1, MaxPid, None, os, TRUE, TRUE)
    \/ \E nb \in 1 .. MaxProcs, osOk \in BOOLEAN : ComputeCpuUsage(1, nb, osOk)
    \/ \E osOk \in BOOLEAN : UpdateMemory(1, osOk)
    \/ \E osOk \in BOOLEAN : UpdateProcInfo(1, osOk)
    \/ \E osOk \in BOOLEAN : Kill(1, osOk)
    \/ OsTick
    \/ OsRunUser(MaxPid)
    \/ \E b \in {0, MaxBytes} : OsMem(MaxPid, b)

SpecSample == InitSample /\ [][NextSample]_vars

\* The record in slot 1 holds an open handle of the reduced tier.
ReducedRecord ==
    /\ recs[1] # Free
    /\ IsOpen(hnd, recs[1].handle)
    /\ hnd[recs[1].handle].access = ReducedOptions

\* C13: a record built on a reduced-tier handle still gets its memory and
\* its cpu_usage (with the three stored samples) updated from the process's
\* counters when the queries succeed and the call returns, and every kill
\* on it returns false.
C13_ReducedTier ==
    [][ReducedRecord =>
         LET pr == procs[recs[1].pid]
         IN  /\ \A osOk \in BOOLEAN : Kill(1, osOk) => ~lastOp'.ret
             /\ (UpdateMemory(1, TRUE) \/ UpdateProcInfo(1, TRUE)) =>
                    lastOp'.ok /\ recs'[1].memory = pr.private \div 1024
             /\ \A nb \in 1 .. MaxProcs :
                  (ComputeCpuUsage(1, nb, TRUE) /\ ~panicked') =>
                      /\ lastOp'.ok
                      /\ recs'[1].old_cpu = clock
                      /\ recs'[1].old_sys_cpu = pr.kernel
                      /\ recs'[1].old_user_cpu = pr.user
                      /\ (clock > recs[1].old_cpu /\ pr.kernel >= recs[1].old_sys_cpu
                                                  /\ pr.user >= recs[1].old_user_cpu) =>
                             recs'[1].cpu_usage =
                                 Fin(100 * ((pr.kernel - recs[1].old_sys_cpu)
                                            + (pr.user - recs[1].old_user_cpu)),
                                     (clock - recs[1].old_cpu) * nb)]_vars

C13_Witness ==
    /\ ReducedRecord
    /\ lastOp.op = "kill" /\ ~lastOp.ret
    /\ recs[1].memory > 0
    /\ recs[1].old_user_cpu > 0
    /\ recs[1].cpu_usage.k = "fin" /\ recs[1].cpu_usage.n > 0

\* C14: of two successive compute_cpu_usage calls on one record, when the
\* second reads the same kernel and user times as the first and a strictly
\* larger wall-clock time, the second sets cpu_usage to 0.0.
C14_IdleIsZero ==
    [][\A nb \in 1 .. MaxProcs, osOk \in BOOLEAN :
          (/\ lastOp.op = "compute_cpu_usage"
           /\ lastOp'.fsys = lastOp.fsys
           /\ lastOp'.fuser = lastOp.fuser
           /\ TicksOf(lastOp'.ftime) > TicksOf(lastOp.ftime)
           /\ ComputeCpuUsage(1, nb, osOk))
              => (~panicked' /\ recs'[1].cpu_usage = FZero)]_vars

C14_Witness ==
    /\ lastOp.op = "compute_cpu_usage" /\ lastOp.ok
    /\ ~panicked
    /\ recs[1].cpu_usage = FZero
    /\ recs[1].old_user_cpu > 0
    /\ recs[1].old_cpu = MaxTick

\* ------------------------------------------------ time words: SpecTime
\* The system time and the process's user time hold any two-word value when
\* the record is constructed and sampled.
InitTime ==
    /\ NoRecords
    /\ clock \in 0 .. U64Mod - 1
    /\ \E u \in {0, DWordMod, U64Mod - 1} :
         procs = [q \in 1 .. MaxPid |-> [QuietProc EXCEPT !.user = u]]
    /\ overflow_checks \in BOOLEAN
    /\ WalkIdle

NextTime ==
    \/ \E os \in OsAnswers : New(1, MaxPid, None, os, TRUE, TRUE)
    \/ \E osOk \in BOOLEAN : ComputeCpuUsage(1, 1, osOk)

SpecTime == InitTime /\ [][NextTime]_vars

\* v is the unsigned combination of the two words of ft: high * 2^w + low
\* with w the word width, and splitting v again gives back ft.
CombinesWords(ft, v) ==
    /\ v = ft.dwHighDateTime * (2 ^ DWordBits) + ft.dwLowDateTime
    /\ v >= 0
    /\ v \div (2 ^ DWordBits) = ft.dwHighDateTime
    /\ v % (2 ^ DWordBits) = ft.dwLowDateTime

\* C15: the two-word time values read by compute_cpu_usage are converted to
\* high * 2^32 + low (the word width is scaled to DWordBits here), without
\* sign extension, and splitting the result gives back the two words, for
\* every pair including all-zero and all-ones.
C15_TimeWords ==
    (lastOp.op = "compute_cpu_usage" /\ ~panicked) =>
        /\ CombinesWords(lastOp.ftime, recs[1].old_cpu)
        /\ CombinesWords(lastOp.fsys, recs[1].old_sys_cpu)
        /\ CombinesWords(lastOp.fuser, recs[1].old_user_cpu)

C15_Witness ==
    /\ lastOp.op = "compute_cpu_usage" /\ ~panicked
    /\ lastOp.ftime = [dwLowDateTime |-> DWordMod - 1, dwHighDateTime |-> DWordMod - 1]
    /\ recs[1].old_cpu = U64Mod - 1
    /\ lastOp.fuser = [dwLowDateTime |-> 0, dwHighDateTime |-> 1]
    /\ recs[1].old_user_cpu = DWordMod

\* C16: the start_time of a record constructed with a valid handle is the
\* process's creation time in seconds: its creation tick count (100 ns
\* units) divided by 10^7, not the tick count itself.
C16_StartTimeSeconds ==
    (lastOp.op = "new" /\ lastOp.ok) =>
        recs[lastOp.slot].start_time =
            procs[lastOp.pid].creation \div (10 * 1000 * 1000)

\* C17: when the memory query inside update_memory succeeds with a
\* private-usage counter of b bytes, memory after the call is
\* floor(b / 1024), whatever memory was before.
C17_MemoryInKiB ==
    [][\A osOk \in BOOLEAN :
          (UpdateMemory(1, osOk) /\ GetProcessMemoryInfo(hnd, recs[1].handle, osOk).ok)
              => recs'[1].memory = procs[recs[1].pid].private \div 1024]_vars

C17_Witness ==
    /\ lastOp.op = "update_memory" /\ lastOp.ok
    /\ recs[1] # Free
    /\ procs[recs[1].pid].private = 1024
    /\ recs[1].memory = 1

\* The usage determined by the readings prev and cur of two calls (records
\* with fields ftime, fsys, fuser) and the processor count nb.
SubU64(a, b) == (a - b + 2 ^ (2 * DWordBits)) % (2 ^ (2 * DWordBits))
UsageBetween(prev, cur, nb) ==
    F32Mul(F32Div(F32Div(F32Add(AsF32(SubU64(TicksOf(cur.fsys), TicksOf(prev.fsys))),
                                AsF32(SubU64(TicksOf(cur.fuser), TicksOf(prev.fuser)))),
                         AsF32(SubU64(TicksOf(cur.ftime), TicksOf(prev.ftime)))),
                  AsF32(nb)),
           AsF32(100))

\* C18: after every compute_cpu_usage call that returns, old_cpu,
\* old_sys_cpu and old_user_cpu equal the wall-clock, kernel and user
\* readings of that call, whatever they were before; the usage computed by
\* the next call is determined by the readings of the two calls alone.
C18_OneTrailingSample ==
    [][\A nb \in 1 .. MaxProcs, osOk \in BOOLEAN :
          (~panicked' /\ lastOp'.nb = nb /\ ComputeCpuUsage(1, nb, osOk)) =>
              /\ recs'[1].old_cpu = TicksOf(lastOp'.ftime)
              /\ recs'[1].old_sys_cpu = TicksOf(lastOp'.fsys)
              /\ recs'[1].old_user_cpu = TicksOf(lastOp'.fuser)
              /\ lastOp.op = "compute_cpu_usage" =>
                     recs'[1].cpu_usage = UsageBetween(lastOp, lastOp', nb)]_vars

\* A call stored readings smaller than the samples it replaced.
C18_Witness ==
    /\ lastOp.op = "compute_cpu_usage" /\ ~lastOp.ok
    /\ ~panicked
    /\ recs[1].old_sys_cpu = 0 /\ recs[1].old_user_cpu = 0
    /\ recs[1].old_cpu = MaxTick
    /\ recs[1].cpu_usage.k = "fin" /\ recs[1].cpu_usage.n > 0

\* C19: in no compute_cpu_usage call does one of the unsigned subtractions
\* now - old_cpu, sys - old_sys_cpu, user - old_user_cpu underflow (each
\* reading is at least the stored sample, and the call does not panic),
\* also after a failed process-times query or a wall clock set back.
C19_NoUnderflow ==
    [][\A nb \in 1 .. MaxProcs, osOk \in BOOLEAN :
          ComputeCpuUsage(1, nb, osOk) =>
              /\ TicksOf(lastOp'.ftime) >= recs[1].old_cpu
              /\ TicksOf(lastOp'.fsys) >= recs[1].old_sys_cpu
              /\ TicksOf(lastOp'.fuser) >= recs[1].old_user_cpu
              /\ ~panicked']_vars

\* C20: update_memory and update_proc_info change no field but memory;
\* compute_cpu_usage changes no field but cpu_usage, old_cpu, old_sys_cpu
\* and old_user_cpu; kill changes no field; pid, parent, name, start_time
\* and handle of a record never change after construction.
C20_Frame ==
    [][recs[1] # Free =>
         LET p == recs[1]
             q == recs'[1]
             op == lastOp'.op  \* the operation of the step (OS steps keep lastOp and recs)
         IN  /\ q # Free
             /\ q.pid = p.pid /\ q.parent = p.parent /\ q.name = p.name
             /\ q.start_time = p.start_time /\ q.handle = p.handle
             /\ op \in {"update_memory", "update_proc_info"} =>
                    q = [p EXCEPT !.memory = q.memory]
             /\ op = "compute_cpu_usage" =>
                    q = [p EXCEPT !.cpu_usage = q.cpu_usage, !.old_cpu = q.old_cpu,
                                  !.old_sys_cpu = q.old_sys_cpu,
                                  !.old_user_cpu = q.old_user_cpu]
             /\ op = "kill" => q = p]_vars

C20_Witness ==
    /\ lastOp.op = "update_proc_info" /\ lastOp.ok
    /\ recs[1] # Free
    /\ recs[1].handle # NULL
    /\ recs[1].memory > 0
    /\ recs[1].old_cpu > 0
    /\ recs[1].cpu_usage # FZero

====
